---------------------------- MODULE Spec2Model ----------------------------
(***************************************************************************)
(* Binary encoding of a signed account transaction (serialization.ts and   *)
(* serializationHelpers.ts of the Concordium node SDK), the signing digest *)
(* and the transaction hash derived from it, and the node client's         *)
(* sendAccountTransaction, which serializes a transaction and sends it.    *)
(*                                                                         *)
(* Bytes are integers 0..255 and a Buffer is a sequence of bytes.  A       *)
(* JavaScript number or bigint is a record                                 *)
(*     [nan, neg, mag, half]                                               *)
(* whose magnitude mag is five base-65536 limbs, most significant first    *)
(* (values up to 2^80 - 1; the 64-bit limits do not fit a 32-bit integer),  *)
(* and whose value is (neg ? -1 : 1) * (mag + (half ? 1/2 : 0)).           *)
(* A call either returns a value or throws: [ok, val, err].                *)
(***************************************************************************)
EXTENDS Integers, Sequences, FiniteSets, TLC

VARIABLES
    accountTransaction,  \* the caller's AccountTransaction object
    signatures,          \* the caller's AccountTransactionSignature object
    call,                \* the exported function called last and its scalar arguments
    ret,                 \* what that call returned or threw
    request              \* the node client's sendAccountTransaction in progress

vars == <<accountTransaction, signatures, call, ret, request>>

(***************************************************************************)
(* Outcomes of a call                                                      *)
(***************************************************************************)
Return(v) == [ok |-> TRUE, val |-> v, err |-> ""]

Throw(msg) == [ok |-> FALSE, val |-> <<>>, err |-> msg]

\* Buffer.concat over buffers computed left to right: the first computation
\* that throws ends the caller, otherwise the buffers are joined in order.
RECURSIVE BufferConcat(_)
BufferConcat(rs) ==
    IF rs = <<>> THEN Return(<<>>)
    ELSE IF Len(rs) = 1 THEN rs[1]
    ELSE LET half  == Len(rs) \div 2
             first == BufferConcat(SubSeq(rs, 1, half))
             rest  == BufferConcat(SubSeq(rs, half + 1, Len(rs)))
         IN  IF ~first.ok THEN first
             ELSE IF rest.ok THEN Return(first.val \o rest.val) ELSE rest

(***************************************************************************)
(* Numbers                                                                 *)
(***************************************************************************)
Limb == 256 * 256

Mag(l4, l3, l2, l1, l0) == <<l4, l3, l2, l1, l0>>

IntNum(neg, mag) == [nan |-> FALSE, neg |-> neg, mag |-> mag, half |-> FALSE]

HalfNum(neg, mag) == [nan |-> FALSE, neg |-> neg, mag |-> mag, half |-> TRUE]

NaN == [nan |-> TRUE, neg |-> FALSE, mag |-> Mag(0, 0, 0, 0, 0), half |-> FALSE]

\* a small integer (of magnitude below 2^31) as a number
Small(n) ==
    LET abs == IF n < 0 THEN -n ELSE n
    IN  IntNum(n < 0, Mag(0, 0, 0, abs \div Limb, abs % Limb))

MagLt(a, b) ==
    \E i \in 1..5 : a[i] < b[i] /\ \A j \in 1..(i - 1) : a[j] = b[j]

AbsLt(a, b) == MagLt(a.mag, b.mag) \/ (a.mag = b.mag /\ ~a.half /\ b.half)

IsNegative(a) == a.neg /\ (a.half \/ a.mag # Mag(0, 0, 0, 0, 0))

\* a < b and a > b of JavaScript: false when either side is NaN
Lt(a, b) ==
    /\ ~a.nan /\ ~b.nan
    /\ IF IsNegative(a) # IsNegative(b) THEN IsNegative(a)
       ELSE IF IsNegative(a) THEN AbsLt(b, a)
       ELSE AbsLt(a, b)

Gt(a, b) == Lt(b, a)

NumberIsInteger(a) == ~a.nan /\ ~a.half

\* the low n limbs of the two's complement of an integer: what the typed
\* array and DataView setters store (ToUint8/16/32, ToBigUint64)
ToUint(a, n) ==
    LET low == [i \in 1..n |-> a.mag[5 - n + i]]
        inv == [i \in 1..n |-> Limb - 1 - low[i]]
        carry[i \in 1..(n + 1)] ==
            IF i = n + 1 THEN 1 ELSE (inv[i] + carry[i + 1]) \div Limb
    IN  IF a.nan THEN [i \in 1..n |-> 0]
        ELSE IF ~a.neg THEN low
        ELSE [i \in 1..n |-> (inv[i] + carry[i + 1]) % Limb]

BigEndian(limbs) ==
    [i \in 1..(2 * Len(limbs)) |->
        IF i % 2 = 1 THEN limbs[(i + 1) \div 2] \div 256
        ELSE limbs[i \div 2] % 256]

(***************************************************************************)
(* serializationHelpers.ts: fixed-width encoders                           *)
(***************************************************************************)
Word64Limit == IntNum(FALSE, Mag(0, 32767, 65535, 65535, 65535))

Word32Limit == IntNum(FALSE, Mag(0, 0, 0, 65535, 65535))

Word16Limit == IntNum(FALSE, Mag(0, 0, 0, 0, 65535))

Word8Limit == IntNum(FALSE, Mag(0, 0, 0, 0, 255))

Zero == IntNum(FALSE, Mag(0, 0, 0, 0, 0))

encodeWord64(value) ==
    IF Gt(value, Word64Limit) \/ Lt(value, Zero)
    THEN Throw("The input has to be a 64 bit unsigned integer")
    ELSE Return(BigEndian(ToUint(value, 4)))

encodeWord32(value) ==
    IF Gt(value, Word32Limit) \/ Lt(value, Zero) \/ ~NumberIsInteger(value)
    THEN Throw("The input has to be a 32 bit unsigned integer")
    ELSE Return(BigEndian(ToUint(value, 2)))

encodeWord16(value) ==
    IF Gt(value, Word16Limit) \/ Lt(value, Zero) \/ ~NumberIsInteger(value)
    THEN Throw("The input has to be a 16 bit unsigned integer")
    ELSE Return(BigEndian(ToUint(value, 1)))

\* encodeWord8 with its upper limit off by one
encodeWord8_OffByOne(value) ==
    IF Gt(value, Small(256)) \/ Lt(value, Zero) \/ ~NumberIsInteger(value)
    THEN Throw("The input has to be a 16 bit unsigned integer")
    ELSE Return(<<ToUint(value, 1)[1] % 256>>)

encodeWord8(value) ==
    IF Gt(value, Word8Limit) \/ Lt(value, Zero) \/ ~NumberIsInteger(value)
    THEN Throw("The input has to be a 16 bit unsigned integer")
    ELSE Return(<<ToUint(value, 1)[1] % 256>>)

(***************************************************************************)
(* Strings, objects and hex                                                *)
(*                                                                         *)
(* A key string is a sequence of one-character strings, a signature string *)
(* a pattern of them with a repeat count.  An object is the sequence of    *)
(* its own properties [key, value] in creation order.                      *)
(***************************************************************************)
Digits == <<"0", "1", "2", "3", "4", "5", "6", "7", "8", "9">>

HexDigits == Digits \o <<"a", "b", "c", "d", "e", "f">>

IsDigit(c) == \E i \in 1..Len(Digits) : Digits[i] = c

IsHexDigit(c) == \E i \in 1..Len(HexDigits) : HexDigits[i] = c

HexValue(c) == (CHOOSE i \in 1..Len(HexDigits) : HexDigits[i] = c) - 1

AllDigits(str) == \A i \in 1..Len(str) : IsDigit(str[i])

RECURSIVE DecimalValue(_)
DecimalValue(str) ==
    IF str = <<>> THEN 0
    ELSE 10 * DecimalValue(SubSeq(str, 1, Len(str) - 1)) + HexValue(str[Len(str)])

\* Number(str) for strings of at most nine digits with an optional sign and
\* fraction: the empty string is 0, anything else that is no decimal
\* literal is NaN.  A non-zero fraction is kept as "half".
StringToNumber(str) ==
    LET neg  == str # <<>> /\ str[1] = "-"
        body == IF neg \/ (str # <<>> /\ str[1] = "+") THEN Tail(str) ELSE str
        dots == {i \in 1..Len(body) : body[i] = "."}
        dot  == IF dots = {} THEN Len(body) + 1 ELSE CHOOSE i \in dots : TRUE
        int  == SubSeq(body, 1, dot - 1)
        frac == SubSeq(body, dot + 1, Len(body))
    IN  IF str = <<>> THEN Zero
        ELSE IF /\ Cardinality(dots) <= 1
                /\ AllDigits(int) /\ AllDigits(frac)
                /\ Len(int) + Len(frac) > 0
        THEN [nan  |-> FALSE, neg |-> neg,
              mag  |-> Small(DecimalValue(int)).mag,
              half |-> \E i \in 1..Len(frac) : frac[i] # "0"]
        ELSE NaN

\* an integer index: the canonical decimal string of an integer below 2^32 - 1
IsArrayIndex(str) ==
    /\ str # <<>> /\ Len(str) <= 9 /\ AllDigits(str)
    /\ (str[1] = "0" => Len(str) = 1)

\* the keys in the order the properties were created
ObjectKeys_CreationOrder(obj) == [i \in 1..Len(obj) |-> obj[i].key]

\* Object.keys(obj): integer indices in ascending numeric order, then the
\* other string keys in the order the properties were created
ObjectKeys(obj) ==
    LET keys == [i \in 1..Len(obj) |-> obj[i].key]
    IN  SortSeq(SelectSeq(keys, IsArrayIndex),
                LAMBDA a, b : DecimalValue(a) < DecimalValue(b))
        \o SelectSeq(keys, LAMBDA k : ~IsArrayIndex(k))

Get(obj, key) == obj[CHOOSE i \in 1..Len(obj) : obj[i].key = key].value

\* parseInt(pair, 16) of a two-character string: -1 stands for NaN
ParseHexPair(c1, c2) ==
    IF ~IsHexDigit(c1) THEN -1
    ELSE IF ~IsHexDigit(c2) THEN HexValue(c1)
    ELSE 16 * HexValue(c1) + HexValue(c2)

\* A signature string is kept as a pattern of characters and the number of
\* times the pattern is repeated, so that a long signature is a small value.
Repeated(chars, times) == [chars |-> chars, times |-> times]

Text(chars) == Repeated(chars, 1)

\* str.length and the characters of str
StringLength(str) == Len(str.chars) * str.times

Characters(str) ==
    SubSeq([i \in 1..StringLength(str) |->
               str.chars[((i - 1) % Len(str.chars)) + 1]], 1, StringLength(str))

\* Buffer.from(str, 'hex'): one byte per character pair, cut at the first
\* pair that does not parse; an odd last character is dropped
BufferFromHex(str) ==
    LET n    == StringLength(str) \div 2
        char == Characters(str)
        byte == SubSeq([i \in 1..n |-> ParseHexPair(char[2 * i - 1],
                                                      char[2 * i])], 1, n)
        bad  == {i \in 1..n : byte[i] = -1}
        len  == IF bad = {} THEN n
                ELSE (CHOOSE i \in bad : \A j \in bad : i <= j) - 1
    IN  SubSeq(byte, 1, len)

(***************************************************************************)
(* serializationHelpers.ts: serializeMap, and the encoders that            *)
(* serializeAccountTransactionSignature passes to it.  A function passed   *)
(* as an argument is passed by name and called with Apply.                 *)
(***************************************************************************)
\* a key that is no number taken as index 0
encodeWord8FromString_DefaultZero(value) ==
    IF StringToNumber(value).nan THEN encodeWord8(Zero)
    ELSE encodeWord8(StringToNumber(value))

encodeWord8FromString(value) == encodeWord8(StringToNumber(value))

RECURSIVE serializeMap(_, _, _, _)

\* length.writeUInt16BE(value, 0) on a buffer of two bytes: a RangeError
\* above 0xffff
writeUInt16BE(value) ==
    IF value > 65535 THEN Throw("\"value\" argument is out of bounds")
    ELSE Return(<<value \div 256, value % 256>>)

\* the length of the hex string written instead of the number of bytes
putSignature_StringLength(signature) ==
    BufferConcat(<<writeUInt16BE(StringLength(signature)),
                   Return(BufferFromHex(signature))>>)

\* the length written without the range check: it wraps at 16 bits
putSignature_Wrapping(signature) ==
    LET signatureBytes == BufferFromHex(signature)
    IN  BufferConcat(<<writeUInt16BE(Len(signatureBytes) % 65536),
                       Return(signatureBytes)>>)

\* the signature's bytes after their number as two big-endian bytes
putSignature(signature) ==
    LET signatureBytes == BufferFromHex(signature)
    IN  BufferConcat(<<writeUInt16BE(Len(signatureBytes)),
                       Return(signatureBytes)>>)

putCredentialSignatures(credSig) ==
    serializeMap(credSig, "encodeWord8", "encodeWord8FromString", "putSignature")

Apply(f, x) ==
    CASE f = "encodeWord8"             -> encodeWord8(x)
      [] f = "encodeWord8FromString"   -> encodeWord8FromString(x)
      [] f = "putSignature"            -> putSignature(x)
      [] f = "putCredentialSignatures" -> putCredentialSignatures(x)

serializeMap(map, encodeSize, encodeKey, encodeValue) ==
    LET keys == ObjectKeys(map)
        pushed == [i \in 1..2 * Len(keys) |->
                      IF i % 2 = 1
                      THEN Apply(encodeKey, keys[(i + 1) \div 2])
                      ELSE Apply(encodeValue, Get(map, keys[i \div 2]))]
        buffers == <<Apply(encodeSize, Small(Len(keys)))>>
                   \o SubSeq(pushed, 1, 2 * Len(keys))
    IN  BufferConcat(buffers)

(***************************************************************************)
(* serialization.ts: signatures                                            *)
(***************************************************************************)
\* serializeAccountTransactionSignature without its guard
serializeAccountTransactionSignature_NoGuard(sigs) ==
    serializeMap(sigs, "encodeWord8", "encodeWord8FromString",
                 "putCredentialSignatures")

serializeAccountTransactionSignature(sigs) ==
    IF Len(ObjectKeys(sigs)) = 0
    THEN Throw("No signatures were provided")
    ELSE serializeMap(sigs, "encodeWord8", "encodeWord8FromString",
                      "putCredentialSignatures")

(***************************************************************************)
(* Collaborators of serialization.ts: types.ts, accountTransactions.ts,    *)
(* energyCost.ts, util.ts and hash.ts                                      *)
(***************************************************************************)
\* BlockItemKind.AccountTransactionKind
AccountTransactionKind == 1

\* AccountTransactionType: the type tags that have a payload handler
HandledTypes == {3, 22}

getAccountTransactionHandler(type) ==
    IF type \in HandledTypes THEN Return(type)
    ELSE Throw("The provided type does not have a handler")

\* handler.serialize(payload): the payload's bytes, when the payload has the
\* shape of the handler's transaction type
HandlerSerialize(type, payload) ==
    IF payload.shape = type THEN Return(payload.bytes)
    ELSE Throw("UnsupportedPayloadError")

\* handler.getBaseEnergyCost(payload): a fixed cost per transaction type
HandlerGetBaseEnergyCost(type, payload) == IF type = 3 THEN 300 ELSE 350

\* the cost model: linear in the signature count and in the size of header
\* and payload, plus the handler's base cost
calculateEnergyCost(signatureCount, payloadSize, transactionSpecificCost) ==
    100 * signatureCount + (60 + payloadSize) + transactionSpecificCost

RECURSIVE SumLengths(_)
SumLengths(lens) ==
    IF lens = <<>> THEN 0
    ELSE IF Len(lens) = 1 THEN lens[1]
    ELSE SumLengths(SubSeq(lens, 1, Len(lens) \div 2))
         + SumLengths(SubSeq(lens, Len(lens) \div 2 + 1, Len(lens)))

\* the number of signatures over all credentials
countSignatures(sigs) ==
    SumLengths([i \in 1..Len(sigs) |-> Len(ObjectKeys(sigs[i].value))])

\* the digest of the buffers' concatenation, as a term: equal digests have
\* equal preimages
sha256(data) == [sha256 |-> BufferConcat(data).val]

\* digest.toString('hex')
ToHexString(digest) == [hex |-> digest]

(***************************************************************************)
(* serialization.ts: the transaction                                       *)
(***************************************************************************)
\* Uint8Array.of(type) stores the tag modulo 256
serializeAccountTransactionType(type) == Return(<<type % 256>>)

\* the header with the payload size read from the header object
serializeAccountTransactionHeader_StoredSize(header, payloadSize, energyAmount) ==
    BufferConcat(<<Return(header.sender.decodedAddress),
                   encodeWord64(header.nonce),
                   encodeWord64(energyAmount),
                   encodeWord32(header.payloadSize),
                   encodeWord64(header.expiry.expiryEpochSeconds)>>)

\* the header with the energy read from the header object
serializeAccountTransactionHeader_StoredEnergy(header, payloadSize, energyAmount) ==
    BufferConcat(<<Return(header.sender.decodedAddress),
                   encodeWord64(header.nonce),
                   encodeWord64(header.energyAmount),
                   encodeWord32(payloadSize),
                   encodeWord64(header.expiry.expiryEpochSeconds)>>)

serializeAccountTransactionHeader(header, payloadSize, energyAmount) ==
    LET serializedSender       == Return(header.sender.decodedAddress)
        serializedNonce        == encodeWord64(header.nonce)
        serializedEnergyAmount == encodeWord64(energyAmount)
        serializedPayloadSize  == encodeWord32(payloadSize)
        serializedExpiry       == encodeWord64(header.expiry.expiryEpochSeconds)
    IN  BufferConcat(<<serializedSender, serializedNonce, serializedEnergyAmount,
                       serializedPayloadSize, serializedExpiry>>)

\* serializeAccountTransaction with the header put before the signatures
serializeAccountTransaction_HeaderFirst(tx, sigs) ==
    LET serializedBlockItemKind == encodeWord8(Small(AccountTransactionKind))
        serializedAccountTransactionSignatures ==
            serializeAccountTransactionSignature(sigs)
        serializedType == serializeAccountTransactionType(tx.type)
        accountTransactionHandler == getAccountTransactionHandler(tx.type)
        serializedPayload == HandlerSerialize(tx.type, tx.payload)
        baseEnergyCost == HandlerGetBaseEnergyCost(tx.type, tx.payload)
        energyCost ==
            calculateEnergyCost(countSignatures(sigs),
                                Len(serializedPayload.val) + 1, baseEnergyCost)
        serializedHeader ==
            serializeAccountTransactionHeader(
                tx.header, Small(Len(serializedPayload.val) + 1), Small(energyCost))
    IN  IF ~serializedBlockItemKind.ok THEN serializedBlockItemKind
        ELSE IF ~serializedAccountTransactionSignatures.ok
             THEN serializedAccountTransactionSignatures
        ELSE IF ~accountTransactionHandler.ok THEN accountTransactionHandler
        ELSE IF ~serializedPayload.ok THEN serializedPayload
        ELSE BufferConcat(<<serializedBlockItemKind, serializedHeader,
                            serializedAccountTransactionSignatures,
                            serializedType, serializedPayload>>)

\* the energy computed from the number of credentials
serializeAccountTransaction_CountsCredentials(tx, sigs) ==
    LET serializedBlockItemKind == encodeWord8(Small(AccountTransactionKind))
        serializedAccountTransactionSignatures ==
            serializeAccountTransactionSignature(sigs)
        serializedType == serializeAccountTransactionType(tx.type)
        accountTransactionHandler == getAccountTransactionHandler(tx.type)
        serializedPayload == HandlerSerialize(tx.type, tx.payload)
        baseEnergyCost == HandlerGetBaseEnergyCost(tx.type, tx.payload)
        energyCost ==
            calculateEnergyCost(Len(sigs),
                                Len(serializedPayload.val) + 1, baseEnergyCost)
        serializedHeader ==
            serializeAccountTransactionHeader(
                tx.header, Small(Len(serializedPayload.val) + 1), Small(energyCost))
    IN  IF ~serializedBlockItemKind.ok THEN serializedBlockItemKind
        ELSE IF ~serializedAccountTransactionSignatures.ok
             THEN serializedAccountTransactionSignatures
        ELSE IF ~accountTransactionHandler.ok THEN accountTransactionHandler
        ELSE IF ~serializedPayload.ok THEN serializedPayload
        ELSE BufferConcat(<<serializedBlockItemKind,
                            serializedAccountTransactionSignatures,
                            serializedHeader, serializedType, serializedPayload>>)

serializeAccountTransaction(tx, sigs) ==
    LET serializedBlockItemKind == encodeWord8(Small(AccountTransactionKind))
        serializedAccountTransactionSignatures ==
            serializeAccountTransactionSignature(sigs)
        serializedType == serializeAccountTransactionType(tx.type)
        accountTransactionHandler == getAccountTransactionHandler(tx.type)
        serializedPayload == HandlerSerialize(tx.type, tx.payload)
        baseEnergyCost == HandlerGetBaseEnergyCost(tx.type, tx.payload)
        energyCost ==
            calculateEnergyCost(countSignatures(sigs),
                                Len(serializedPayload.val) + 1, baseEnergyCost)
        serializedHeader ==
            serializeAccountTransactionHeader(
                tx.header, Small(Len(serializedPayload.val) + 1), Small(energyCost))
    IN  IF ~serializedBlockItemKind.ok THEN serializedBlockItemKind
        ELSE IF ~serializedAccountTransactionSignatures.ok
             THEN serializedAccountTransactionSignatures
        ELSE IF ~accountTransactionHandler.ok THEN accountTransactionHandler
        ELSE IF ~serializedPayload.ok THEN serializedPayload
        ELSE BufferConcat(<<serializedBlockItemKind,
                            serializedAccountTransactionSignatures,
                            serializedHeader, serializedType, serializedPayload>>)

\* the hash taken over the submission envelope, version byte included
getAccountTransactionHash_OfEnvelope(tx, sigs) ==
    LET serializedAccountTransaction == serializeAccountTransaction(tx, sigs)
        serializedVersion == encodeWord8(Small(0))
    IN  IF ~serializedAccountTransaction.ok THEN serializedAccountTransaction
        ELSE Return(ToHexString(sha256(<<serializedVersion,
                                         serializedAccountTransaction>>)))

getAccountTransactionHash(tx, sigs) ==
    LET serializedAccountTransaction == serializeAccountTransaction(tx, sigs)
    IN  IF ~serializedAccountTransaction.ok THEN serializedAccountTransaction
        ELSE Return(ToHexString(sha256(<<serializedAccountTransaction>>)))

\* an optional argument: left out, or given
Undefined == [given |-> FALSE, n |-> 0]

Given(n) == [given |-> TRUE, n |-> n]

\* the digest with the count taken from the signatures that exist when it
\* is left out
getAccountTransactionSignDigest_CountsSignatures(tx, count) ==
    LET signatureCount ==
            IF count.given THEN count.n ELSE countSignatures(signatures)
        accountTransactionHandler == getAccountTransactionHandler(tx.type)
        serializedPayload == HandlerSerialize(tx.type, tx.payload)
        baseEnergyCost == HandlerGetBaseEnergyCost(tx.type, tx.payload)
        energyCost ==
            calculateEnergyCost(signatureCount,
                                Len(serializedPayload.val) + 1, baseEnergyCost)
        serializedHeader ==
            serializeAccountTransactionHeader(
                tx.header, Small(Len(serializedPayload.val) + 1), Small(energyCost))
    IN  IF ~accountTransactionHandler.ok THEN accountTransactionHandler
        ELSE IF ~serializedPayload.ok THEN serializedPayload
        ELSE IF ~serializedHeader.ok THEN serializedHeader
        ELSE Return(sha256(<<serializedHeader,
                             serializeAccountTransactionType(tx.type),
                             serializedPayload>>))

getAccountTransactionSignDigest(tx, count) ==
    LET signatureCount == IF count.given THEN count.n ELSE 1
        accountTransactionHandler == getAccountTransactionHandler(tx.type)
        serializedPayload == HandlerSerialize(tx.type, tx.payload)
        baseEnergyCost == HandlerGetBaseEnergyCost(tx.type, tx.payload)
        energyCost ==
            calculateEnergyCost(signatureCount,
                                Len(serializedPayload.val) + 1, baseEnergyCost)
        serializedHeader ==
            serializeAccountTransactionHeader(
                tx.header, Small(Len(serializedPayload.val) + 1), Small(energyCost))
    IN  IF ~accountTransactionHandler.ok THEN accountTransactionHandler
        ELSE IF ~serializedPayload.ok THEN serializedPayload
        ELSE IF ~serializedHeader.ok THEN serializedHeader
        ELSE Return(sha256(<<serializedHeader,
                             serializeAccountTransactionType(tx.type),
                             serializedPayload>>))

\* the envelope with the version byte put last
serializeAccountTransactionForSubmission_VersionLast(tx, sigs) ==
    LET serializedAccountTransaction == serializeAccountTransaction(tx, sigs)
        serializedVersion == encodeWord8(Small(0))
    IN  IF ~serializedAccountTransaction.ok THEN serializedAccountTransaction
        ELSE BufferConcat(<<serializedAccountTransaction, serializedVersion>>)

serializeAccountTransactionForSubmission(tx, sigs) ==
    LET serializedAccountTransaction == serializeAccountTransaction(tx, sigs)
        serializedVersion == encodeWord8(Small(0))
    IN  IF ~serializedAccountTransaction.ok THEN serializedAccountTransaction
        ELSE BufferConcat(<<serializedVersion, serializedAccountTransaction>>)

(***************************************************************************)
(* Inputs                                                                  *)
(***************************************************************************)
\* most credentials in a signature object
MaxCreds == 3

\* largest signature count passed to getAccountTransactionSignDigest
MaxSignatureCount == 2

Property(key, value) == [key |-> key, value |-> value]

\* credential indices as the caller may spell them; 256 does not fit a byte
CredentialKeys == {<<"0">>, <<"2">>, <<"1", "0">>, <<"2", "5", "6">>}

OneSignature == <<Property(<<"0">>, Text(<<"a", "a">>))>>

\* two signatures, key 10 created before key 2; the second one is empty
TwoSignatures ==
    <<Property(<<"1", "0">>, Text(<<"0", "a", "0", "b">>)),
      Property(<<"2">>, Text(<<>>))>>

CredentialSignatures == {OneSignature, TwoSignatures}

KeyOrders ==
    {ks \in UNION {[1..n -> CredentialKeys] : n \in 0..MaxCreds} :
        \A i, j \in 1..Len(ks) : i # j => ks[i] # ks[j]}

\* credentials without signatures, and key indices that are no byte
OddSignatures ==
    { <<Property(<<"0">>, <<>>)>>,
      <<Property(<<"2">>, <<>>), Property(<<"0">>, OneSignature)>>,
      <<Property(<<"0">>, <<Property(<<"2", "5", "6">>, Text(<<"a", "a">>))>>)>>,
      <<Property(<<"0">>, <<Property(<<"a">>, Text(<<"a", "a">>))>>)>> }

\* signature objects: up to MaxCreds distinct credential indices, created in
\* any order
SignaturePool ==
    OddSignatures \cup
    UNION {{[i \in 1..Len(ks) |-> Property(ks[i], f[i])] :
                f \in [1..Len(ks) -> CredentialSignatures]} : ks \in KeyOrders}

\* String(n) of a non-negative integer
RECURSIVE DecimalString(_)
DecimalString(n) ==
    IF n < 10 THEN <<Digits[n + 1]>>
    ELSE Append(DecimalString(n \div 10), Digits[(n % 10) + 1])

\* a hex string of n zero bytes
LongSignature(n) == Repeated(<<"0", "0">>, n)

\* an object with the keys 0 .. n-1, created in ascending order
ManyEntries(n, value) ==
    SubSeq([i \in 1..n |-> Property(DecimalString(i - 1), value)], 1, n)

\* signature strings: whole bytes, an odd last digit, digits that are no hex
SignatureStrings ==
    { Text(<<>>), Text(<<"a", "a">>), Text(<<"0", "a", "0", "b">>),
      Text(<<"f", "f", "0">>), Text(<<"z", "z">>),
      Text(<<"a", "a", "1", "g", "c", "c">>), Repeated(<<"0", "1">>, 3) }

\* signatures of 65535 and 65536 bytes, maps of 255 and 256 entries
LargeSignatures ==
    { <<Property(<<"0">>, <<Property(<<"0">>, LongSignature(256 * 256 - 1))>>)>>,
      <<Property(<<"0">>, <<Property(<<"0">>, Text(<<"a", "a">>)),
                            Property(<<"1">>, LongSignature(256 * 256))>>)>>,
      ManyEntries(255, OneSignature),
      ManyEntries(256, OneSignature),
      <<Property(<<"7">>, ManyEntries(256, Text(<<"a", "a">>)))>> }

\* signature objects at the limits of the encoding, among them keys that
\* Number() converts although they are not the decimal form of an index
EdgeSignatures ==
    OddSignatures \cup LargeSignatures \cup
    { <<Property(<<"0">>, <<Property(<<"0">>, s)>>)>> : s \in SignatureStrings } \cup
    { <<Property(<<>>, OneSignature)>>,
      <<Property(<<"0", "2">>, OneSignature), Property(<<"0", "1">>, OneSignature)>>,
      <<>> }

Transaction(sender, nonce, expiry, type, shape, bytes) ==
    [header  |-> [sender |-> [decodedAddress |-> sender],
                  nonce  |-> nonce,
                  expiry |-> [expiryEpochSeconds |-> expiry],
                  \* not fields of AccountTransactionHeader: what a caller
                  \* may have left on the object
                  payloadSize  |-> Small(9),
                  energyAmount |-> Small(5)],
     type    |-> type,
     payload |-> [shape |-> shape, bytes |-> bytes]]

ZeroAddress == [i \in 1..32 |-> 0]

OtherAddress == [i \in 1..32 |-> 7 * i]

TransactionPool ==
    { Transaction(ZeroAddress, Small(1), Small(100), 3, 3, <<10, 11>>),
      Transaction(OtherAddress, Word64Limit,
                  IntNum(FALSE, Mag(0, 0, 1, 0, 513)), 22, 22, <<1, 2, 3>>),
      Transaction(ZeroAddress, IntNum(FALSE, Mag(0, 32768, 0, 0, 0)),
                  Small(100), 3, 3, <<>>),
      Transaction(ZeroAddress, Small(1), IntNum(TRUE, Mag(0, 0, 0, 0, 1)),
                  3, 3, <<10, 11>>),
      Transaction(OtherAddress, Small(1), Small(100), 3, 22, <<1, 2, 3>>),
      Transaction(ZeroAddress, Small(1), Small(100), 7, 7, <<>>) }

\* sender of 32 zero bytes, nonce 1, expiry 100, a two-byte payload of type 3
ExampleTransaction ==
    Transaction(ZeroAddress, Small(1), Small(100), 3, 3, <<10, 11>>)

\* the signatureCount argument: left out, a count, or a negative bigint,
\* for which the cost model gives a negative energy
SignatureCounts ==
    {Undefined, Given(-9)} \cup {Given(n) : n \in 0..MaxSignatureCount}

\* numbers around the limits of each width
Magnitudes ==
    { Mag(0, 0, 0, 0, 0), Mag(0, 0, 0, 0, 1), Mag(0, 0, 0, 0, 127),
      Mag(0, 0, 0, 0, 255), Mag(0, 0, 0, 0, 256), Mag(0, 0, 0, 0, 4660),
      Mag(0, 0, 0, 0, 65535), Mag(0, 0, 0, 1, 0), Mag(0, 0, 0, 4660, 22136),
      Mag(0, 0, 0, 32768, 0), Mag(0, 0, 0, 65535, 65535), Mag(0, 0, 1, 0, 0),
      Mag(0, 291, 17767, 35243, 52719), Mag(0, 32767, 65535, 65535, 65535),
      Mag(0, 32768, 0, 0, 0), Mag(0, 65535, 65535, 65535, 65535),
      Mag(1, 0, 0, 0, 0) }

BigIntPool == {IntNum(neg, m) : neg \in BOOLEAN, m \in Magnitudes}

NumberPool == BigIntPool \cup {HalfNum(neg, m) : neg \in BOOLEAN, m \in Magnitudes}
              \cup {NaN}

(***************************************************************************)
(* The node client's request: the promise sendRequest returns, what the    *)
(* callbacks were given, and what sendAccountTransaction ended with.       *)
(***************************************************************************)
\* a promise: pending, fulfilled or rejected with the first outcome given to
\* resolve or reject; settled counts the calls of resolve and reject
NoPromise == [state |-> "none", value |-> Return(<<>>), settled |-> 0]

Settle(promise, outcome) ==
    [state   |-> IF promise.state # "pending" THEN promise.state
                 ELSE IF outcome.ok THEN "fulfilled" ELSE "rejected",
     value   |-> IF promise.state # "pending" THEN promise.value ELSE outcome,
     settled |-> promise.settled + 1]

NotEnded == [state |-> "none", value |-> FALSE, err |-> ""]

Returned(value) == [state |-> "returned", value |-> value, err |-> ""]

Thrown(err) == [state |-> "thrown", value |-> FALSE, err |-> err]

Idle ==
    [pc       |-> "idle",
     payload  |-> <<>>,        \* the payload set on the SendTransactionRequest
     ready    |-> "none",      \* what the waitForReady callback was given
     invoked  |-> 0,           \* how often the command was invoked
     sent     |-> <<>>,        \* the payload of the request the command got
     service  |-> "none",      \* what the command's callback was given
     response |-> FALSE,
     promise  |-> NoPromise,
     result   |-> NotEnded]

\* the error of the waitForReady callback and of the command's callback;
\* the empty string stands for no error
ReadyErrors == {"", "Failed to connect before the deadline"}

ServiceErrors == {"", "UNAVAILABLE"}

\* response.serializeBinary() of a BoolResponse, and unwrapBoolResponse
SerializeBinary(response) == IF response THEN <<8, 1>> ELSE <<>>

unwrapBoolResponse(serialized) == serialized = <<8, 1>>

(***************************************************************************)
(* The caller: one action per exported function                            *)
(***************************************************************************)
Called(fn, value, count) == [fn |-> fn, value |-> value, count |-> count]

Init ==
    /\ accountTransaction \in TransactionPool
    /\ signatures \in SignaturePool
    /\ call = Called("none", Zero, Undefined)
    /\ ret = Return(<<>>)
    /\ request = Idle

\* the call leaving the caller's object with its properties in key order
CallSerializeAccountTransactionSignature_Reorders ==
    /\ call' = Called("serializeAccountTransactionSignature", Zero, Undefined)
    /\ ret' = serializeAccountTransactionSignature(signatures)
    /\ signatures' = [i \in 1..Len(signatures) |->
                         Property(ObjectKeys(signatures)[i],
                                  Get(signatures, ObjectKeys(signatures)[i]))]
    /\ UNCHANGED <<accountTransaction, request>>

CallSerializeAccountTransactionSignature ==
    /\ call' = Called("serializeAccountTransactionSignature", Zero, Undefined)
    /\ ret' = serializeAccountTransactionSignature(signatures)
    /\ UNCHANGED <<accountTransaction, signatures, request>>

CallSerializeAccountTransaction ==
    /\ call' = Called("serializeAccountTransaction", Zero, Undefined)
    /\ ret' = serializeAccountTransaction(accountTransaction, signatures)
    /\ UNCHANGED <<accountTransaction, signatures, request>>

CallGetAccountTransactionHash ==
    /\ call' = Called("getAccountTransactionHash", Zero, Undefined)
    /\ ret' = getAccountTransactionHash(accountTransaction, signatures)
    /\ UNCHANGED <<accountTransaction, signatures, request>>

CallGetAccountTransactionSignDigest ==
    \E count \in SignatureCounts :
        /\ call' = Called("getAccountTransactionSignDigest", Zero, count)
        /\ ret' = getAccountTransactionSignDigest(accountTransaction, count)
        /\ UNCHANGED <<accountTransaction, signatures, request>>

CallSerializeAccountTransactionForSubmission ==
    /\ call' = Called("serializeAccountTransactionForSubmission", Zero, Undefined)
    /\ ret' = serializeAccountTransactionForSubmission(accountTransaction,
                                                       signatures)
    /\ UNCHANGED <<accountTransaction, signatures, request>>

Next ==
    \/ CallSerializeAccountTransactionSignature
    \/ CallSerializeAccountTransaction
    \/ CallGetAccountTransactionHash
    \/ CallGetAccountTransactionSignDigest
    \/ CallSerializeAccountTransactionForSubmission

Spec == Init /\ [][Next]_vars

\* the same calls on the signature objects at the limits of the encoding;
\* the large ones are signatures of one transaction
InitEdge ==
    /\ signatures \in EdgeSignatures
    /\ accountTransaction \in IF signatures \in LargeSignatures
                              THEN {ExampleTransaction} ELSE TransactionPool
    /\ call = Called("none", Zero, Undefined)
    /\ ret = Return(<<>>)
    /\ request = Idle

SpecEdge == InitEdge /\ [][Next]_vars

(***************************************************************************)
(* The node client: sendAccountTransaction and sendRequest, one action per *)
(* step between two callbacks                                              *)
(***************************************************************************)
InitClient ==
    /\ accountTransaction \in TransactionPool
    /\ signatures \in {sigs \in SignaturePool : Len(sigs) <= 1}
    /\ call = Called("none", Zero, Undefined)
    /\ ret = Return(<<>>)
    /\ request = Idle

\* sendAccountTransaction up to its await: it serializes, and if that did
\* not throw it builds the request and calls sendRequest, which creates the
\* promise and registers the waitForReady callback
SendAccountTransaction ==
    /\ request.pc \in {"idle", "done"}
    /\ \E serializedAccountTransaction \in
               {serializeAccountTransactionForSubmission(accountTransaction,
                                                        signatures)} :
           request' =
               IF ~serializedAccountTransaction.ok
               THEN [Idle EXCEPT !.pc = "done",
                                 !.result = Thrown(serializedAccountTransaction.err)]
               ELSE [Idle EXCEPT !.pc = "waitForReady",
                                 !.payload = serializedAccountTransaction.val,
                                 !.promise = [NoPromise EXCEPT !.state = "pending"]]
    /\ UNCHANGED <<accountTransaction, signatures, call, ret>>

\* the waitForReady callback without its return after reject(error)
WaitForReadyCallback_NoReturn ==
    /\ request.pc = "waitForReady"
    /\ \E error \in ReadyErrors :
           request' =
               [request EXCEPT !.ready = IF error # "" THEN error ELSE "ready",
                               !.promise = IF error # ""
                                           THEN Settle(@, Throw(error)) ELSE @,
                               !.invoked = @ + 1,
                               !.sent = request.payload,
                               !.pc = "command"]
    /\ UNCHANGED <<accountTransaction, signatures, call, ret>>

\* the waitForReady callback: with an error it rejects and returns, without
\* one it invokes the command with the request
WaitForReadyCallback ==
    /\ request.pc = "waitForReady"
    /\ \E error \in ReadyErrors :
           request' =
               IF error # ""
               THEN [request EXCEPT !.ready = error,
                                    !.promise = Settle(@, Throw(error)),
                                    !.pc = "settled"]
               ELSE [request EXCEPT !.ready = "ready",
                                    !.invoked = @ + 1,
                                    !.sent = request.payload,
                                    !.pc = "command"]
    /\ UNCHANGED <<accountTransaction, signatures, call, ret>>

\* the command's callback: it rejects with the service error, or resolves
\* with the serialized response
CommandCallback ==
    /\ request.pc = "command"
    /\ \E err \in ServiceErrors, response \in BOOLEAN :
           request' =
               [request EXCEPT
                    !.service = IF err # "" THEN err ELSE "response",
                    !.response = response,
                    !.promise = Settle(@, IF err # "" THEN Throw(err)
                                          ELSE Return(SerializeBinary(response))),
                    !.pc = "settled"]
    /\ UNCHANGED <<accountTransaction, signatures, call, ret>>

\* sendAccountTransaction after its await: it returns the unwrapped
\* response, or throws what the promise was rejected with
ResumeSendAccountTransaction ==
    /\ request.pc = "settled"
    /\ request' =
           [request EXCEPT
                !.result = IF request.promise.state = "fulfilled"
                           THEN Returned(unwrapBoolResponse(request.promise.value.val))
                           ELSE Thrown(request.promise.value.err),
                !.pc = "done"]
    /\ UNCHANGED <<accountTransaction, signatures, call, ret>>

NextClient ==
    \/ SendAccountTransaction
    \/ WaitForReadyCallback
    \/ CommandCallback
    \/ ResumeSendAccountTransaction

SpecClient == InitClient /\ [][NextClient]_vars

(***************************************************************************)
(* The fixed-width encoders called on their own                            *)
(***************************************************************************)
InitWord ==
    /\ accountTransaction =
           Transaction(ZeroAddress, Small(1), Small(100), 3, 3, <<10, 11>>)
    /\ signatures = <<Property(<<"0">>, OneSignature)>>
    /\ call = Called("none", Zero, Undefined)
    /\ ret = Return(<<>>)
    /\ request = Idle

CallEncodeWord64 ==
    \E value \in BigIntPool :
        /\ call' = Called("encodeWord64", value, Undefined)
        /\ ret' = encodeWord64(value)
        /\ UNCHANGED <<accountTransaction, signatures, request>>

CallEncodeWord32 ==
    \E value \in NumberPool :
        /\ call' = Called("encodeWord32", value, Undefined)
        /\ ret' = encodeWord32(value)
        /\ UNCHANGED <<accountTransaction, signatures, request>>

CallEncodeWord16 ==
    \E value \in NumberPool :
        /\ call' = Called("encodeWord16", value, Undefined)
        /\ ret' = encodeWord16(value)
        /\ UNCHANGED <<accountTransaction, signatures, request>>

CallEncodeWord8 ==
    \E value \in NumberPool :
        /\ call' = Called("encodeWord8", value, Undefined)
        /\ ret' = encodeWord8(value)
        /\ UNCHANGED <<accountTransaction, signatures, request>>

NextWord ==
    \/ CallEncodeWord64
    \/ CallEncodeWord32
    \/ CallEncodeWord16
    \/ CallEncodeWord8

SpecWord == InitWord /\ [][NextWord]_vars

(***************************************************************************)
(* Properties                                                              *)
(***************************************************************************)
RECURSIVE Flatten(_)
Flatten(seqs) == IF seqs = <<>> THEN <<>> ELSE Head(seqs) \o Flatten(Tail(seqs))

BE2(n) == <<n \div 256, n % 256>>

BE4(n) == <<n \div 16777216, (n \div 65536) % 256, (n \div 256) % 256, n % 256>>

IsBytes(bytes) == \A i \in 1..Len(bytes) : bytes[i] \in 0..255

SenderBytes == accountTransaction.header.sender.decodedAddress

PayloadBytes == accountTransaction.payload.bytes

\* the signature count a getAccountTransactionSignDigest call assumed
AssumedCount == IF call.count.given THEN call.count.n ELSE 1

\* the energy the cost model gives for n signatures on this transaction
EnergyFor(n) ==
    calculateEnergyCost(n, Len(PayloadBytes) + 1,
        HandlerGetBaseEnergyCost(accountTransaction.type,
                                 accountTransaction.payload))

HeaderFor(n) ==
    serializeAccountTransactionHeader(accountTransaction.header,
        Small(Len(PayloadBytes) + 1), Small(EnergyFor(n)))

\* C1: a successful serializeAccountTransaction returns exactly
\* kind byte ++ encodeSignatures(sigs) ++ encoded header ++ type byte ++
\* payload, with nothing in between; and it succeeds whenever its parts do.
C1_AssembleLayout ==
    call.fn = "serializeAccountTransaction" =>
        LET sigBlock == serializeAccountTransactionSignature(signatures)
            payload  == HandlerSerialize(accountTransaction.type,
                                         accountTransaction.payload)
            header   == HeaderFor(countSignatures(signatures))
            valid    == /\ sigBlock.ok /\ payload.ok /\ header.ok
                        /\ getAccountTransactionHandler(accountTransaction.type).ok
        IN  /\ ret.ok <=> valid
            /\ ret.ok =>
                 ret.val = <<AccountTransactionKind>> \o sigBlock.val
                           \o header.val \o <<accountTransaction.type>>
                           \o payload.val

C1_Witness ==
    /\ call.fn = "serializeAccountTransaction" /\ ret.ok
    /\ Len(signatures) >= 2 /\ Len(PayloadBytes) = 3

\* C2: in a successful serializeAccountTransaction output and in the bytes
\* hashed by getAccountTransactionSignDigest, the 32-bit field after sender,
\* nonce and energy holds 1 + the number of payload bytes that follow the
\* header and the type byte, which is the serialized payload; it is not the
\* payloadSize left on the caller's header record.
C2_PayloadSizeField ==
    LET sizeAt(bytes, start) == SubSeq(bytes, start + 1, start + 4)
        trailing(bytes, start) == Len(bytes) - (start + 4 + 8 + 1)
        holds(bytes, start) ==
            /\ sizeAt(bytes, start) = BE4(1 + trailing(bytes, start))
            /\ trailing(bytes, start) = Len(PayloadBytes)
            /\ SubSeq(bytes, Len(bytes) - Len(PayloadBytes) + 1, Len(bytes))
                   = PayloadBytes
    IN  /\ (call.fn = "serializeAccountTransaction" /\ ret.ok) =>
               holds(ret.val,
                     1 + Len(serializeAccountTransactionSignature(signatures).val)
                       + Len(SenderBytes) + 16)
        /\ (call.fn = "getAccountTransactionSignDigest" /\ ret.ok) =>
               holds(ret.val.sha256, Len(SenderBytes) + 16)

C2_Witness ==
    /\ call.fn = "getAccountTransactionSignDigest" /\ ret.ok
    /\ Len(PayloadBytes) = 2
    /\ accountTransaction.header.payloadSize # Small(3)

\* the decimal strings of the integers 0..255
CanonicalByteKey(str) ==
    /\ str # <<>> /\ AllDigits(str) /\ (str[1] = "0" => Len(str) = 1)
    /\ Len(str) <= 3 /\ DecimalValue(str) <= 255

CanonicalKeys(sigs) ==
    \A i \in 1..Len(sigs) :
        /\ CanonicalByteKey(sigs[i].key)
        /\ \A j \in 1..Len(sigs[i].value) :
               CanonicalByteKey(sigs[i].value[j].key)

\* the properties of an object by ascending numeric key
Ascending(obj) ==
    [i \in 1..Len(obj) |->
        obj[CHOOSE j \in 1..Len(obj) :
                Cardinality({k \in 1..Len(obj) :
                    DecimalValue(obj[k].key) < DecimalValue(obj[j].key)}) = i - 1]]

ExpectedSignature(sig) == BE2(Len(BufferFromHex(sig))) \o BufferFromHex(sig)

ExpectedCredential(credSig) ==
    <<Len(credSig)>>
    \o Flatten([i \in 1..Len(credSig) |->
           <<DecimalValue(Ascending(credSig)[i].key)>>
           \o ExpectedSignature(Ascending(credSig)[i].value)])

ExpectedSignatures(sigs) ==
    <<Len(sigs)>>
    \o Flatten([i \in 1..Len(sigs) |->
           <<DecimalValue(Ascending(sigs)[i].key)>>
           \o ExpectedCredential(Ascending(sigs)[i].value)])

\* C3: with canonical decimal keys in 0..255 at both levels,
\* serializeAccountTransactionSignature emits at each level a one-byte
\* count and then the (key byte, value) pairs by ascending numeric key,
\* whatever the order in which the properties were created.
C3_AscendingKeys ==
    (/\ call.fn = "serializeAccountTransactionSignature"
     /\ signatures # <<>> /\ CanonicalKeys(signatures)) =>
        ret.ok /\ ret.val = ExpectedSignatures(signatures)

C3_Witness ==
    /\ call.fn = "serializeAccountTransactionSignature" /\ ret.ok
    /\ Len(signatures) = 3
    /\ signatures[1].key = <<"1", "0">> /\ signatures[2].key = <<"2">>
    /\ signatures[3].key = <<"0">> /\ signatures[3].value = TwoSignatures
    /\ ret.val[2] = 0 /\ ret.val[4] = 2

SignatureConsumers ==
    { "serializeAccountTransactionSignature", "serializeAccountTransaction",
      "getAccountTransactionHash", "serializeAccountTransactionForSubmission" }

\* C4: with no credential entry at all, serializeAccountTransactionSignature
\* throws and returns no bytes, and so do serializeAccountTransaction,
\* getAccountTransactionHash and serializeAccountTransactionForSubmission.
C4_EmptySetRejected ==
    (signatures = <<>> /\ call.fn \in SignatureConsumers) =>
        /\ ~ret.ok /\ ret.val = <<>>
        /\ ret.err = "No signatures were provided"

C4_Witness ==
    /\ signatures = <<>> /\ ~ret.ok
    /\ call.fn = "serializeAccountTransactionForSubmission"
    /\ accountTransaction.type = 22

\* C5: encoding fails unless some credential entry holds at least one
\* signature entry.
C5_NoSignatureRejected ==
    (/\ call.fn = "serializeAccountTransactionSignature"
     /\ countSignatures(signatures) = 0) => ~ret.ok

\* the width of the encoder called last, 0 when it was none of them
Width ==
    CASE call.fn = "encodeWord8"  -> 8
      [] call.fn = "encodeWord16" -> 16
      [] call.fn = "encodeWord32" -> 32
      [] call.fn = "encodeWord64" -> 64
      [] OTHER -> 0

\* an integer v with 0 <= v <= 2^w - 1
FitsWidth(v, w) ==
    /\ ~v.nan /\ ~v.half
    /\ ~(v.neg /\ v.mag # Mag(0, 0, 0, 0, 0))
    /\ \A i \in 1..(5 - (w + 15) \div 16) : v.mag[i] = 0
    /\ w = 8 => v.mag[5] <= 255

\* the magnitude that big-endian bytes spell
RECURSIVE BytesMag(_)
BytesMag(bytes) ==
    IF Len(bytes) = 1 THEN Mag(0, 0, 0, 0, bytes[1])
    ELSE LET high == BytesMag(SubSeq(bytes, 1, Len(bytes) - 2))
         IN  Tail(IF Len(bytes) = 2 THEN Mag(0, 0, 0, 0, 0) ELSE high)
             \o <<256 * bytes[Len(bytes) - 1] + bytes[Len(bytes)]>>

BigEndianOf(v, w) ==
    /\ Len(ret.val) = w \div 8 /\ IsBytes(ret.val)
    /\ BytesMag(ret.val) = v.mag

\* C6: encodeWord8, encodeWord16 and encodeWord32 succeed exactly on the
\* integers 0..2^w - 1 and then return w/8 bytes, most significant first;
\* on a negative, non-integral or larger value they throw.
C6_NarrowWords ==
    Width \in {8, 16, 32} =>
        /\ ret.ok <=> FitsWidth(call.value, Width)
        /\ ret.ok => BigEndianOf(call.value, Width)
        /\ ~ret.ok => ret.val = <<>>

C6_Witness ==
    /\ call.fn = "encodeWord32" /\ call.value = Word32Limit
    /\ ret.ok /\ ret.val = <<255, 255, 255, 255>>

\* C7: encodeWord64 succeeds on every integer 0..2^64 - 1 and then returns
\* its 8 big-endian bytes; it throws only below 0 or above 2^64 - 1.
C7_Word64FullRange ==
    Width = 64 =>
        /\ ret.ok <=> FitsWidth(call.value, 64)
        /\ ret.ok => BigEndianOf(call.value, 64)

\* C8: serializeAccountTransactionForSubmission succeeds exactly when
\* serializeAccountTransaction does; its byte 0 is then 0, it is one byte
\* longer and its bytes from index 1 on are the assembled transaction.  When
\* assembling throws it throws the same error and returns no envelope.
C8_SubmissionEnvelope ==
    call.fn = "serializeAccountTransactionForSubmission" =>
        LET assembled == serializeAccountTransaction(accountTransaction, signatures)
        IN  /\ ret.ok <=> assembled.ok
            /\ ret.ok => /\ ret.val[1] = 0
                         /\ Len(ret.val) = Len(assembled.val) + 1
                         /\ Tail(ret.val) = assembled.val
            /\ ~ret.ok => ret = assembled /\ ret.val = <<>>

C8_Witness ==
    /\ call.fn = "serializeAccountTransactionForSubmission" /\ ret.ok
    /\ Len(ret.val) > 2 /\ ret.val[2] = AccountTransactionKind

\* C9: getAccountTransactionSignDigest hashes exactly encoded header ++ type
\* byte ++ payload for the assumed signature count, without the kind byte
\* and without any byte of the signature block: the digest is a function of
\* the transaction and the count alone, whatever signature object exists,
\* and leaving the count out is passing 1.
C9_SigningDigest ==
    call.fn = "getAccountTransactionSignDigest" =>
        /\ ret.ok <=>
               /\ getAccountTransactionHandler(accountTransaction.type).ok
               /\ accountTransaction.payload.shape = accountTransaction.type
               /\ HeaderFor(AssumedCount).ok
        /\ ret.ok =>
               /\ ret.val.sha256 = HeaderFor(AssumedCount).val
                                   \o <<accountTransaction.type>> \o PayloadBytes
               /\ Len(ret.val.sha256) = Len(SenderBytes) + 28 + 1 + Len(PayloadBytes)
               /\ SubSeq(ret.val.sha256, 1, Len(SenderBytes)) = SenderBytes
        /\ ~call.count.given =>
               ret = getAccountTransactionSignDigest(accountTransaction, Given(1))

C9_Witness ==
    /\ call.fn = "getAccountTransactionSignDigest" /\ ret.ok
    /\ ~call.count.given
    /\ countSignatures(signatures) = 3

\* C10: getAccountTransactionHash is the hex form of the hash of exactly the
\* bytes serializeAccountTransaction returns, from the kind byte to the
\* payload; the version byte of the submission envelope is not hashed.
C10_TransactionHash ==
    call.fn = "getAccountTransactionHash" =>
        LET assembled == serializeAccountTransaction(accountTransaction, signatures)
            envelope  == serializeAccountTransactionForSubmission(
                             accountTransaction, signatures)
        IN  /\ ret.ok <=> assembled.ok
            /\ ret.ok => /\ ret.val = [hex |-> [sha256 |-> assembled.val]]
                         /\ ret.val.hex.sha256[1] = AccountTransactionKind
                         /\ ret.val.hex.sha256 # envelope.val
            /\ ~ret.ok => ret = assembled

C10_Witness ==
    /\ call.fn = "getAccountTransactionHash" /\ ret.ok
    /\ Len(signatures) = 2 /\ Len(ret.val.hex.sha256) > Len(SenderBytes) + 30

\* the bytes hashed by, or returned from, the call: the encoded header is at
\* their start in a digest and after kind byte and signature block in an
\* assembled transaction
HeaderOffset ==
    IF call.fn = "getAccountTransactionSignDigest" THEN 0
    ELSE 1 + Len(serializeAccountTransactionSignature(signatures).val)

OutputBytes ==
    IF call.fn = "getAccountTransactionSignDigest" THEN ret.val.sha256
    ELSE ret.val

Field(from, len) ==
    SubSeq(OutputBytes, HeaderOffset + from + 1, HeaderOffset + from + len)

\* the signature count that decides the energy of the call
CountUsed ==
    IF call.fn = "getAccountTransactionSignDigest" THEN AssumedCount
    ELSE countSignatures(signatures)

\* C11: the encoded header is sender ++ nonce (8 bytes) ++ energy (8) ++
\* payload size (4) ++ expiry (8), big-endian, len(sender) + 28 bytes in
\* all; energy and payload size are the values passed in (the cost model's
\* result and 1 + the payload length), not those on the header object.
C11_HeaderLayout ==
    (/\ call.fn \in {"getAccountTransactionSignDigest",
                     "serializeAccountTransaction"}
     /\ ret.ok) =>
        LET s == Len(SenderBytes)
        IN  /\ Field(0, s) = SenderBytes
            /\ BytesMag(Field(s, 8)) = accountTransaction.header.nonce.mag
            /\ BytesMag(Field(s + 8, 8)) = Small(EnergyFor(CountUsed)).mag
            /\ Field(s + 16, 4) = BE4(Len(PayloadBytes) + 1)
            /\ BytesMag(Field(s + 20, 8)) =
                   accountTransaction.header.expiry.expiryEpochSeconds.mag
            /\ IsBytes(Field(0, s + 28))
            /\ Len(OutputBytes) = HeaderOffset + (s + 28) + 1 + Len(PayloadBytes)

C11_Witness ==
    /\ call.fn = "getAccountTransactionSignDigest" /\ ret.ok
    /\ SenderBytes = OtherAddress
    /\ accountTransaction.header.nonce = Word64Limit
    /\ call.count = Given(2)
    /\ accountTransaction.header.energyAmount # Small(EnergyFor(2))

\* the signature entries of one credential from position pos of the bytes:
\* each is a key byte, a two-byte big-endian length and that many bytes,
\* which are the signature's; the last entry ends the bytes
RECURSIVE SignatureEntriesAt(_, _, _)
SignatureEntriesAt(bytes, pos, entries) ==
    IF entries = <<>> THEN pos = Len(bytes) + 1
    ELSE LET sig == BufferFromHex(Head(entries).value)
             len == 256 * bytes[pos + 1] + bytes[pos + 2]
         IN  /\ pos + 2 <= Len(bytes)
             /\ bytes[pos] = DecimalValue(Head(entries).key)
             /\ len = Len(sig)
             /\ SubSeq(bytes, pos + 3, pos + 2 + len) = sig
             /\ SignatureEntriesAt(bytes, pos + 3 + len, Tail(entries))

WholeBytes(sig) ==
    /\ StringLength(sig) % 2 = 0
    /\ \A i \in 1..Len(sig.chars) : IsHexDigit(sig.chars[i])

\* C12: every signature is written as a two-byte big-endian length and then
\* its bytes, the length being the number of bytes that follow; a signature
\* of more than 65535 bytes makes the encoding fail, it is not written with
\* a wrapped length.
C12_SignatureLengthPrefix ==
    (/\ call.fn = "serializeAccountTransactionSignature"
     /\ Len(signatures) = 1 /\ CanonicalKeys(signatures)
     /\ Len(signatures[1].value) <= 255) =>
        LET credSig == signatures[1].value
            size(sig) == Len(BufferFromHex(sig))
        IN  /\ \A i \in 1..Len(credSig) :
                   WholeBytes(credSig[i].value) =>
                       size(credSig[i].value) =
                           StringLength(credSig[i].value) \div 2
            /\ ret.ok <=> \A i \in 1..Len(credSig) :
                              size(credSig[i].value) <= 65535
            /\ ret.ok => /\ SubSeq(ret.val, 1, 3) = <<1, 0, Len(credSig)>>
                         /\ SignatureEntriesAt(ret.val, 4, Ascending(credSig))
            /\ ~ret.ok => ret.val = <<>>

C12_Witness ==
    /\ call.fn = "serializeAccountTransactionSignature"
    /\ Len(signatures) = 1 /\ Len(signatures[1].value) = 2
    /\ StringLength(signatures[1].value[2].value) = 2 * 65536
    /\ ~ret.ok

\* a key that Number() does not convert to an integer in 0..255; Number()
\* converts a string of digits, the empty string being 0
KeyFails(key) == ~AllDigits(key) \/ Len(key) > 9 \/ DecimalValue(key) > 255

MapFails(map) == Len(map) > 255 \/ \E i \in 1..Len(map) : KeyFails(map[i].key)

\* a step of encoding the signatures fails
SignaturesFail ==
    \/ signatures = <<>>
    \/ MapFails(signatures)
    \/ \E i \in 1..Len(signatures) :
           \/ MapFails(signatures[i].value)
           \/ \E j \in 1..Len(signatures[i].value) :
                  StringLength(signatures[i].value[j].value) \div 2 > 65535

OutOfRange64(v) == v.nan \/ v.neg \/ v.half \/ v.mag[1] # 0

\* a step of encoding header and payload fails
TransactionFails ==
    \/ OutOfRange64(accountTransaction.header.nonce)
    \/ OutOfRange64(accountTransaction.header.expiry.expiryEpochSeconds)
    \/ EnergyFor(CountUsed) < 0
    \/ accountTransaction.type \notin HandledTypes
    \/ accountTransaction.payload.shape # accountTransaction.type

\* C13: when a step fails (no credential entry, an index that is no number
\* or is outside 0..255, a map of more than 255 entries, a signature of more
\* than 65535 bytes, a nonce, energy or expiry out of range, a payload the
\* handler rejects), the call ends in an error and returns nothing: no
\* error is swallowed and no partial output is returned.
C13_AllOrNothing ==
    call.fn # "none" =>
        /\ ret.ok => ret.err = ""
        /\ ~ret.ok => ret.val = <<>> /\ ret.err # ""
        /\ (call.fn \in SignatureConsumers /\ SignaturesFail) => ~ret.ok
        /\ (call.fn # "serializeAccountTransactionSignature" /\ TransactionFails)
               => ~ret.ok

C13_Witness ==
    /\ call.fn = "serializeAccountTransactionForSubmission"
    /\ ~TransactionFails
    /\ Len(signatures) = 1 /\ Len(signatures[1].value) = 1
    /\ signatures[1].value[1].key = <<"a">>
    /\ ~ret.ok /\ ret.val = <<>>

\* the input of the worked example: sender of 32 zero bytes, nonce 1,
\* expiry 100, type 3, payload 0A 0B, and the signatures {0: {0: "aa"}}
ExampleInput ==
    /\ accountTransaction = ExampleTransaction
    /\ signatures = <<Property(<<"0">>, OneSignature)>>

\* the header of the example: 32 zero bytes, nonce 1, the energy of one
\* signature, payload size 3, expiry 100
ExampleHeader ==
    [i \in 1..32 |-> 0]
    \o <<0, 0, 0, 0, 0, 0, 0, 1>>
    \o <<0, 0, 0, 0, 0, 0, EnergyFor(1) \div 256, EnergyFor(1) % 256>>
    \o <<0, 0, 0, 3>>
    \o <<0, 0, 0, 0, 0, 0, 0, 100>>

\* C14 as stated: the assembled example is 01, then the signature block
\* 01 00 01 01 00 02 aa, then the header, then 03, then 0A 0B.
C14_ExampleAsStated ==
    (ExampleInput /\ call.fn = "serializeAccountTransaction") =>
        /\ ret.ok
        /\ ret.val = <<1>> \o <<1, 0, 1, 1, 0, 2, 170>> \o ExampleHeader
                     \o <<3>> \o <<10, 11>>

\* C14: the assembled example is 01 (kind), then the signature block
\* 01 00 01 00 00 01 aa (one credential, index 0, one key, index 0, length
\* 1, byte aa), then the header, then 03 (type), then 0A 0B (payload).
C14_Example ==
    (ExampleInput /\ call.fn = "serializeAccountTransaction") =>
        /\ ret.ok
        /\ ret.val = <<1>> \o <<1, 0, 1, 0, 0, 1, 170>> \o ExampleHeader
                     \o <<3>> \o <<10, 11>>

C14_Witness ==
    /\ ExampleInput /\ call.fn = "serializeAccountTransaction" /\ ret.ok
    /\ Len(ret.val) = 1 + 7 + 60 + 1 + 2

\* the decimal form of a non-negative integer, as String(index) gives it
CanonicalDecimal(key) ==
    key # <<>> /\ AllDigits(key) /\ Len(key) <= 9 /\ (key[1] = "0" => Len(key) = 1)

IndexKeys(sigs) ==
    \A i \in 1..Len(sigs) :
        /\ CanonicalDecimal(sigs[i].key)
        /\ \A j \in 1..Len(sigs[i].value) :
               CanonicalDecimal(sigs[i].value[j].key)

\* the same entries, created by ascending index at both levels
CreatedAscending(sigs) ==
    [i \in 1..Len(sigs) |->
        Property(Ascending(sigs)[i].key, Ascending(Ascending(sigs)[i].value))]

\* what the called function gives for these signatures
OutcomeOn(sigs) ==
    CASE call.fn = "serializeAccountTransactionSignature" ->
             serializeAccountTransactionSignature(sigs)
      [] call.fn = "serializeAccountTransaction" ->
             serializeAccountTransaction(accountTransaction, sigs)
      [] call.fn = "getAccountTransactionHash" ->
             getAccountTransactionHash(accountTransaction, sigs)
      [] call.fn = "serializeAccountTransactionForSubmission" ->
             serializeAccountTransactionForSubmission(accountTransaction, sigs)

\* C15: the result of a call is that of the same call on the same entries
\* created in ascending order, so signature objects holding the same
\* (credential index, key index, signature) entries give identical results
\* in whatever order they were built; and a call repeated on the same input
\* gives the same result again, whatever was called before.
C15_Deterministic ==
    /\ []((call.fn \in SignatureConsumers /\ IndexKeys(signatures)) =>
              ret = OutcomeOn(CreatedAscending(signatures)))
    /\ [][(call'.fn = call.fn /\ call'.count = call.count) => ret' = ret]_vars

C15_Witness ==
    /\ call.fn = "getAccountTransactionHash" /\ ret.ok
    /\ Len(signatures) = 3
    /\ signatures[1].key = <<"1", "0">> /\ signatures[2].key = <<"0">>
    /\ signatures[3].key = <<"2">> /\ signatures[2].value = TwoSignatures
    /\ signatures # CreatedAscending(signatures)

\* C16: no call changes what the caller passed in: the transaction with its
\* header, sender bytes and payload, and the signature object with the
\* creation order of its properties, are after every call what they were
\* before it, in any sequence of calls.
C16_InputsUnchanged ==
    [][/\ accountTransaction' = accountTransaction
       /\ signatures' = signatures]_vars

C16_Witness ==
    /\ call.fn = "serializeAccountTransactionSignature" /\ ret.ok
    /\ Len(signatures) = 2
    /\ signatures[1].key = <<"1", "0">> /\ signatures[2].key = <<"0">>
    /\ signatures[1].value = TwoSignatures
    /\ ret.val[2] = 0

\* the assembled transaction of the inputs, and what follows its kind byte
\* and signature block
Assembled == serializeAccountTransaction(accountTransaction, signatures)

AssembledSuffix ==
    SubSeq(Assembled.val,
           2 + Len(serializeAccountTransactionSignature(signatures).val),
           Len(Assembled.val))

\* the bytes with the energy field, the 8 bytes after sender and nonce, cut out
WithoutEnergy(bytes) ==
    SubSeq(bytes, 1, Len(SenderBytes) + 8)
    \o SubSeq(bytes, Len(SenderBytes) + 17, Len(bytes))

\* C17: when the count given to getAccountTransactionSignDigest is the
\* number of signatures in the signature object, the bytes it hashes are
\* the assembled transaction after kind byte and signature block, energy
\* included; with another count the call succeeds all the same, the bytes
\* agree except for the energy field, and do not agree where the two
\* energies differ.
C17_DigestOfAssembledSuffix ==
    (call.fn = "getAccountTransactionSignDigest" /\ Assembled.ok) =>
        IF AssumedCount = countSignatures(signatures)
        THEN ret.ok /\ ret.val.sha256 = AssembledSuffix
        ELSE /\ ret.ok <=> HeaderFor(AssumedCount).ok
             /\ ret.ok =>
                  /\ WithoutEnergy(ret.val.sha256) = WithoutEnergy(AssembledSuffix)
                  /\ EnergyFor(AssumedCount) # EnergyFor(countSignatures(signatures))
                         => ret.val.sha256 # AssembledSuffix

C17_Witness ==
    /\ call.fn = "getAccountTransactionSignDigest" /\ ret.ok
    /\ call.count = Given(2)
    /\ Len(signatures) = 1 /\ signatures[1].value = TwoSignatures
    /\ Assembled.ok /\ ret.val.sha256 = AssembledSuffix

\* the submission envelope of the inputs
Envelope ==
    serializeAccountTransactionForSubmission(accountTransaction, signatures)

\* C18: sendAccountTransaction serializes before anything is sent: when the
\* serialization throws, it throws that error, waitForReady is never asked
\* and no command is invoked.  In sendRequest the command is invoked only
\* after the waitForReady callback came without an error, once, with the
\* serialized transaction as payload; when the callback comes with an error
\* the promise is rejected with it and the command is never invoked;
\* otherwise the promise is fulfilled with the serialized response or
\* rejected with the service error; resolve and reject are called at most
\* once in all.
C18_SendOrder ==
    /\ (request.pc # "idle" /\ ~Envelope.ok) =>
           /\ request.pc = "done" /\ request.result = Thrown(Envelope.err)
           /\ request.ready = "none" /\ request.invoked = 0
           /\ request.promise = NoPromise
    /\ request.invoked > 0 =>
           /\ request.invoked = 1 /\ request.ready = "ready"
           /\ Envelope.ok /\ request.sent = Envelope.val
    /\ request.ready \notin {"none", "ready"} =>
           /\ request.invoked = 0
           /\ request.promise.state = "rejected"
           /\ request.promise.value = Throw(request.ready)
    /\ request.promise.state = "fulfilled" =>
           /\ request.invoked = 1 /\ request.service = "response"
           /\ request.promise.value = Return(SerializeBinary(request.response))
    /\ (request.promise.state = "rejected" /\ request.ready = "ready") =>
           /\ request.service \notin {"none", "response"}
           /\ request.promise.value = Throw(request.service)
    /\ request.promise.state = "pending" =>
           request.service = "none" /\ request.ready \in {"none", "ready"}
    /\ request.promise.settled <= 1
    /\ request.promise.settled = 1 <=>
           request.promise.state \in {"fulfilled", "rejected"}
    /\ request.pc = "done" =>
           request.result =
               IF ~Envelope.ok THEN Thrown(Envelope.err)
               ELSE IF request.promise.state = "fulfilled"
               THEN Returned(request.response)
               ELSE Thrown(request.promise.value.err)

C18_Witness ==
    /\ request.pc = "done" /\ request.result = Returned(TRUE)
    /\ request.invoked = 1 /\ request.sent = Envelope.val
    /\ accountTransaction = ExampleTransaction
    /\ request.promise.settled = 1

=============================================================================
